---- MODULE Spec2Model ----
(***************************************************************************)
(* Model of the SMILES subset parser of src/src/main.rs                    *)
(* (SmilesParser::parse, atom_number, add_to_graph) together with the     *)
(* Scanner primitives of src/src/scanner.rs it calls and the Mol          *)
(* accessors of src/src/types.rs.                                         *)
(*                                                                         *)
(* One behaviour of Spec is one call of parse on one input string; one    *)
(* step is one iteration of the while loop of parse (or the loop exit).   *)
(***************************************************************************)
EXTENDS Integers, Sequences, FiniteSets, TLC

(***************************************************************************)
(* Bounds of the checked input space.                                      *)
(***************************************************************************)
\* longest input over the full alphabet
MaxLen == 4
\* longest input made of element characters only
MaxChain == 5
\* longest input over the ring / branch alphabet
MaxNest == 6

\* Option::None of an Option<NodeIndex>; node indexes are naturals
None == -1
\* value of `mol` while parse has not returned
NoMol == [returned |-> FALSE]
\* marker for the panic!("not supported") arm of atom_number
NotSupported == 0
\* value of `ret` while no call has returned
NoRet == [op |-> "none"]

----------------------------------------------------------------------------
(* Inputs *)

Digits == {"1", "2", "3", "4", "5", "6", "7", "8", "9"}

\* characters of the exhaustively enumerated inputs
Alphabet == {"c", "n", "o", "f", "l", "1", "2", "(", ")", "x"}
ChainAlphabet == {"c", "n", "o", "f", "l"}
NestAlphabet == {"c", "1", "(", ")"}

Strs(A, n) == UNION {[1..k -> A] : k \in 0..n}

\* the inputs of the tests of main.rs and further inputs named in the
\* specification of the parser
TestInputs ==
    { <<"c","c","c">>,
      <<"c","1","c","c","c","c","1">>,
      <<"c","1","c","c","c","c","c","1","c","2","c","c","c","c","c","2">>,
      <<"f","c","(","f",")","f">>,
      <<"c","c","c","l","c">>,
      <<"c","c","c","c","l">>,
      <<"c","1","c","2","c","c","1","c","2">>,
      <<"c","(","c","(","n",")","1","o",")","f","1">>,
      <<"c","0","C","=","#",".","%"," ","l","c">>,
      <<"c","1",")","1">> }

Inputs == Strs(Alphabet, MaxLen) \cup Strs(ChainAlphabet, MaxChain)
            \cup Strs(NestAlphabet, MaxNest) \cup TestInputs

----------------------------------------------------------------------------
(* Scanner (src/src/scanner.rs): a cursor over a vector of characters *)

\* Scanner::peek: the character at the cursor, None when exhausted
Scanner_peek(chars, cur) == IF cur < Len(chars) THEN chars[cur + 1] ELSE "None"

Scanner_is_done_past(chars, cur) == cur > Len(chars)

\* Scanner::is_done
Scanner_is_done(chars, cur) == cur = Len(chars)

\* Scanner::pop: the character at the cursor and the advanced cursor;
\* None and the same cursor when exhausted
Scanner_pop(chars, cur) ==
    IF cur < Len(chars)
    THEN [value |-> chars[cur + 1], cursor |-> cur + 1]
    ELSE [value |-> "None", cursor |-> cur]

Scanner_take_any(chars, cur, target) ==
    IF cur < Len(chars)
    THEN [value |-> chars[cur + 1] = target, cursor |-> cur + 1]
    ELSE [value |-> FALSE, cursor |-> cur]

\* Scanner::take: true and the advanced cursor when the character at the
\* cursor is the target, else false and the same cursor
Scanner_take(chars, cur, target) ==
    IF cur < Len(chars)
    THEN IF target = chars[cur + 1]
         THEN [value |-> TRUE, cursor |-> cur + 1]
         ELSE [value |-> FALSE, cursor |-> cur]
    ELSE [value |-> FALSE, cursor |-> cur]

----------------------------------------------------------------------------
(* Helpers of parse *)

atom_number_typo(str) ==
    CASE str = "c"  -> 6
      [] str = "n"  -> 7
      [] str = "o"  -> 9
      [] str = "f"  -> 9
      [] str = "cl" -> 17
      [] OTHER      -> NotSupported

atom_number(str) ==
    CASE str = "c"  -> 6
      [] str = "n"  -> 7
      [] str = "o"  -> 8
      [] str = "f"  -> 9
      [] str = "cl" -> 17
      [] OTHER      -> NotSupported

ChainBondOffByOne(last, node_index) == <<last, node_index + 1>>

\* the Bond value built by add_to_graph: (last, new node)
ChainBond(last, node_index) == <<last, node_index>>

add_to_graph_skips_first(s, number, last) ==
    LET node_index == Len(s.atoms)
    IN  [atoms |-> Append(s.atoms, number),
         bonds |-> IF last > 0
                   THEN Append(s.bonds, ChainBond(last, node_index))
                   ELSE s.bonds,
         node_index |-> node_index]

\* add_to_graph on the graph part of a parser state s: adds the node, and
\* the edge from last_node_index when there is one; returns the new graph
\* and the index of the new node
add_to_graph(s, number, last) ==
    LET node_index == Len(s.atoms)
    IN  [atoms |-> Append(s.atoms, number),
         bonds |-> IF last # None
                   THEN Append(s.bonds, ChainBond(last, node_index))
                   ELSE s.bonds,
         node_index |-> node_index]

RingBondSwapped(ring_start, ring_end) == <<ring_end, ring_start>>

\* the Bond value built when a ring closes: (ring_start, ring_end)
RingBond(ring_start, ring_end) == <<ring_start, ring_end>>

RingsRemoveKeeps(tbl, c) == tbl

\* HashMap::insert / HashMap::remove on the ring table
RingsInsert(tbl, c, v) ==
    [d \in (DOMAIN tbl) \cup {c} |-> IF d = c THEN v ELSE tbl[d]]
RingsRemove(tbl, c) ==
    [d \in (DOMAIN tbl) \ {c} |-> tbl[d]]

StackPopOrFirst(stack) ==
    IF stack = <<>>
    THEN [value |-> 0, rest |-> stack]
    ELSE [value |-> stack[Len(stack)], rest |-> SubSeq(stack, 1, Len(stack) - 1)]

\* Vec::pop on the branch stack: the popped Option and the rest
StackPop(stack) ==
    IF stack = <<>>
    THEN [value |-> None, rest |-> stack]
    ELSE [value |-> stack[Len(stack)], rest |-> SubSeq(stack, 1, Len(stack) - 1)]

PanicKeepsGraph(s) ==
    [s EXCEPT !.pc = "panic",
              !.mol = [returned |-> TRUE, atoms |-> s.atoms, bonds |-> s.bonds]]

\* a failed unwrap() / panic!: the call never returns
Panic(s) == [s EXCEPT !.pc = "panic"]

----------------------------------------------------------------------------
(* The arms of the match of parse.  A parser state s is a record of the   *)
(* locals of parse: cursor (scanner.cursor), atoms and bonds (graph),     *)
(* last_node_index, rings, branches_stack, plus pc ("loop", "done" or     *)
(* "panic") and mol (the returned value).  Every arm takes the state      *)
(* after `scanner.pop()` of line 26.                                      *)

\* the state parse starts the loop with
InitState ==
    [cursor |-> 0, atoms |-> <<>>, bonds |-> <<>>, last_node_index |-> None,
     rings |-> [d \in {} |-> 0], branches_stack |-> <<>>,
     pc |-> "loop", mol |-> NoMol]

AddAtomCountAsIndex(s, atom_str) ==
    LET number == atom_number(atom_str)
        g == add_to_graph(s, number, s.last_node_index)
    IN  IF number = NotSupported
        THEN Panic(s)
        ELSE [s EXCEPT !.atoms = g.atoms, !.bonds = g.bonds,
                       !.last_node_index = Len(g.atoms)]

\* lines 42-44 and 47-49: atom_number, add_to_graph, last_node_index = new
AddAtom(s, atom_str) ==
    LET number == atom_number(atom_str)
        g == add_to_graph(s, number, s.last_node_index)
    IN  IF number = NotSupported
        THEN Panic(s)
        ELSE [s EXCEPT !.atoms = g.atoms, !.bonds = g.bonds,
                       !.last_node_index = g.node_index]

AtomStrNoDigraph(next) == "c"

\* lines 32-41: the symbol a 'c' stands for, given the peeked character
AtomStr(next) == IF next = "l" THEN "cl" ELSE "c"

\* 'c' arm: peek, consume a following 'l', add the atom
MatchC(s, chars) ==
    LET next == Scanner_peek(chars, s.cursor)
        atom_str == AtomStr(next)
        s2 == IF next = "l"
              THEN [s EXCEPT !.cursor = Scanner_pop(chars, s.cursor).cursor]
              ELSE s
    IN  AddAtom(s2, atom_str)

\* 'n' | 'o' | 'f' arm
MatchNOF(s, c) == AddAtom(s, c)

MatchDigitMovesLast(s, c) ==
    IF c \notin DOMAIN s.rings
    THEN IF s.last_node_index = None
         THEN Panic(s)
         ELSE [s EXCEPT !.rings = RingsInsert(s.rings, c, s.last_node_index)]
    ELSE IF s.last_node_index = None
         THEN Panic(s)
         ELSE [s EXCEPT !.bonds = Append(s.bonds,
                                   RingBond(s.rings[c], s.last_node_index)),
                        !.rings = RingsRemove(s.rings, c),
                        !.last_node_index = s.rings[c]]

MatchDigitLenient(s, c) ==
    IF s.last_node_index = None
    THEN s
    ELSE IF c \notin DOMAIN s.rings
    THEN [s EXCEPT !.rings = RingsInsert(s.rings, c, s.last_node_index)]
    ELSE [s EXCEPT !.bonds = Append(s.bonds,
                               RingBond(s.rings[c], s.last_node_index)),
                   !.rings = RingsRemove(s.rings, c)]

\* '1'..'9' arm: open the ring when the digit is not pending, else close it
MatchDigit(s, c) ==
    IF c \notin DOMAIN s.rings
    THEN IF s.last_node_index = None
         THEN Panic(s)
         ELSE [s EXCEPT !.rings = RingsInsert(s.rings, c, s.last_node_index)]
    ELSE LET ring_start == s.rings[c]
         IN  IF s.last_node_index = None
             THEN Panic(s)
             ELSE [s EXCEPT !.bonds = Append(s.bonds,
                                       RingBond(ring_start, s.last_node_index)),
                            !.rings = RingsRemove(s.rings, c)]

MatchOpenLenient(s) ==
    IF s.last_node_index = None
    THEN s
    ELSE [s EXCEPT !.branches_stack = Append(s.branches_stack, s.last_node_index)]

\* '(' arm
MatchOpen(s) ==
    IF s.last_node_index = None
    THEN Panic(s)
    ELSE [s EXCEPT !.branches_stack = Append(s.branches_stack, s.last_node_index)]

MatchCloseUnwrap(s) ==
    LET last_index_before_branch == StackPop(s.branches_stack)
    IN  IF last_index_before_branch.value = None
        THEN Panic(s)
        ELSE [s EXCEPT !.branches_stack = last_index_before_branch.rest,
                       !.last_node_index = last_index_before_branch.value]

MatchClosePeeks(s) ==
    LET last_index_before_branch == StackPop(s.branches_stack)
    IN  [s EXCEPT !.last_node_index = last_index_before_branch.value]

MatchCloseKeepLast(s) ==
    LET last_index_before_branch == StackPop(s.branches_stack)
    IN  [s EXCEPT !.branches_stack = last_index_before_branch.rest]

\* ')' arm
MatchClose(s) ==
    LET last_index_before_branch == StackPop(s.branches_stack)
    IN  [s EXCEPT !.branches_stack = last_index_before_branch.rest,
                  !.last_node_index = last_index_before_branch.value]

MatchOtherRejects(s) == Panic(s)

\* '_' arm
MatchOther(s) == s

ReturnValidated(s) ==
    IF DOMAIN s.rings # {} \/ s.branches_stack # <<>>
    THEN Panic(s)
    ELSE [s EXCEPT !.pc = "done",
                   !.mol = [returned |-> TRUE, atoms |-> s.atoms, bonds |-> s.bonds]]

\* lines 80-82: the loop is left and the graph is returned as a Mol
Return(s) ==
    [s EXCEPT !.pc = "done",
              !.mol = [returned |-> TRUE, atoms |-> s.atoms, bonds |-> s.bonds]]

\* one iteration of the while loop: pop a character and match it
Iteration(s, chars) ==
    LET p == Scanner_pop(chars, s.cursor)
        c == p.value
        s1 == [s EXCEPT !.cursor = p.cursor]
    IN  CASE c = "c" -> MatchC(s1, chars)
          [] c \in {"n", "o", "f"} -> MatchNOF(s1, c)
          [] c \in Digits -> MatchDigit(s1, c)
          [] c = "(" -> MatchOpen(s1)
          [] c = ")" -> MatchClose(s1)
          [] OTHER -> MatchOther(s1)

\* parse from state s to its end: the state it returns or panics in
RECURSIVE RunFrom(_, _)
RunFrom(s, chars) ==
    IF s.pc # "loop" THEN s
    ELSE IF Scanner_is_done(chars, s.cursor) THEN Return(s)
    ELSE RunFrom(Iteration(s, chars), chars)

\* SmilesParser::parse as a function of its input
Parse(chars) == RunFrom(InitState, chars)

----------------------------------------------------------------------------
(* The state machine *)

VARIABLES
    characters,       \* scanner.characters: the input
    cursor,           \* scanner.cursor
    atoms,            \* node weights of graph, atom id k at atoms[k+1]
    bonds,            \* edge weights of graph, <<atom_start, atom_end>>
    last_node_index,  \* Option<NodeIndex>
    rings,            \* HashMap<char, NodeIndex>
    branches_stack,   \* Vec<NodeIndex>
    pc,               \* "loop", "done" (returned) or "panic" (aborted)
    mol,              \* the value returned to the caller
    trace,            \* the parser state at each loop head, by cursor
    ret               \* what the last call of a Scanner method or of
                      \* `string` returned (not used by parse)

vars == <<characters, cursor, atoms, bonds, last_node_index, rings,
          branches_stack, pc, mol, trace, ret>>

\* the locals of parse as a parser state
Cur ==
    [cursor |-> cursor, atoms |-> atoms, bonds |-> bonds,
     last_node_index |-> last_node_index, rings |-> rings,
     branches_stack |-> branches_stack, pc |-> pc, mol |-> mol]

Assign(s) ==
    /\ cursor' = s.cursor
    /\ atoms' = s.atoms
    /\ bonds' = s.bonds
    /\ last_node_index' = s.last_node_index
    /\ rings' = s.rings
    /\ branches_stack' = s.branches_stack
    /\ pc' = s.pc
    /\ mol' = s.mol
    /\ trace' = IF s.pc = "loop" THEN (s.cursor :> s) @@ trace ELSE trace
    /\ UNCHANGED <<characters, ret>>

Init ==
    /\ characters \in Inputs
    /\ cursor = InitState.cursor
    /\ atoms = InitState.atoms
    /\ bonds = InitState.bonds
    /\ last_node_index = InitState.last_node_index
    /\ rings = InitState.rings
    /\ branches_stack = InitState.branches_stack
    /\ pc = InitState.pc
    /\ mol = InitState.mol
    /\ trace = (0 :> InitState)
    /\ ret = NoRet

\* the loop runs and the next character is c
Looping == pc = "loop" /\ ~Scanner_is_done(characters, cursor)
Token == Scanner_peek(characters, cursor)

StepC ==
    /\ Looping /\ Token = "c"
    /\ Assign(Iteration(Cur, characters))

StepNOF ==
    /\ Looping /\ Token \in {"n", "o", "f"}
    /\ Assign(Iteration(Cur, characters))

StepDigit ==
    /\ Looping /\ Token \in Digits
    /\ Assign(Iteration(Cur, characters))

StepOpen ==
    /\ Looping /\ Token = "("
    /\ Assign(Iteration(Cur, characters))

StepClose ==
    /\ Looping /\ Token = ")"
    /\ Assign(Iteration(Cur, characters))

StepOther ==
    /\ Looping /\ Token \notin {"c", "n", "o", "f", "(", ")"} \cup Digits
    /\ Assign(Iteration(Cur, characters))

StepReturn ==
    /\ pc = "loop" /\ Scanner_is_done(characters, cursor)
    /\ Assign(Return(Cur))

Next ==
    \/ StepC
    \/ StepNOF
    \/ StepDigit
    \/ StepOpen
    \/ StepClose
    \/ StepOther
    \/ StepReturn

Spec == Init /\ [][Next]_vars

----------------------------------------------------------------------------
(* Vocabulary of the properties *)

Cyclopentane == <<"c","1","c","c","c","c","1">>
Bicyclohexyl ==
    <<"c","1","c","c","c","c","c","1","c","2","c","c","c","c","c","2">>
Fluoroform == <<"f","c","(","f",")","f">>
InnerCl == <<"c","c","c","l","c">>
LastCl == <<"c","c","c","c","l">>

ElementChars == {"c", "n", "o", "f"}

\* position of the ')' that closes the '(' at position i (1-based) of
\* chars by nesting depth, 0 when the '(' is never closed
RECURSIVE CloseFrom(_, _, _)
CloseFrom(chars, k, depth) ==
    IF k > Len(chars) THEN 0
    ELSE IF chars[k] = "(" THEN CloseFrom(chars, k + 1, depth + 1)
    ELSE IF chars[k] = ")"
         THEN IF depth = 0 THEN k ELSE CloseFrom(chars, k + 1, depth - 1)
    ELSE CloseFrom(chars, k + 1, depth)
MatchingClose(chars, i) == CloseFrom(chars, i + 1, 0)

\* the cursor after the element token that starts at position k
AfterElement(chars, k) ==
    IF chars[k] = "c" /\ k < Len(chars) /\ chars[k + 1] = "l" THEN k + 1 ELSE k

\* '(' at position i was processed, and so was its matching ')' at j
BranchProcessed(i, j) ==
    /\ i \in 1..Len(characters)
    /\ characters[i] = "("
    /\ j = MatchingClose(characters, i)
    /\ j # 0
    /\ j \in DOMAIN trace

\* C1: once the ')' matching a '(' is processed, the current atom is again
\* the atom that was current when the '(' was processed, and an element
\* token that follows the ')' adds the bond (that atom, new atom)
BranchRestoration ==
    \A i, j \in 1..Len(characters) :
        BranchProcessed(i, j) =>
            /\ (i - 1) \in DOMAIN trace
            /\ trace[i - 1].last_node_index # None
            /\ trace[j].last_node_index = trace[i - 1].last_node_index
            /\ \A p \in DOMAIN trace :
                  ( /\ j < Len(characters)
                    /\ characters[j + 1] \in ElementChars
                    /\ p = AfterElement(characters, j + 1) ) =>
                  /\ Len(trace[p].atoms) = Len(trace[j].atoms) + 1
                  /\ trace[p].bonds =
                        Append(trace[j].bonds,
                               <<trace[i - 1].last_node_index, Len(trace[j].atoms)>>)

\* a branch that moved the current atom was closed and an element followed
BranchRestorationWitness ==
    \E i, j \in 1..Len(characters) :
        /\ BranchProcessed(i, j)
        /\ trace[j - 1].last_node_index # trace[i - 1].last_node_index
        /\ \E k \in (i + 1)..(j - 1) : characters[k] \in {"(", "1"}
        /\ j < Len(characters)
        /\ characters[j + 1] \in ElementChars
        /\ AfterElement(characters, j + 1) \in DOMAIN trace

RingClosureStep ==
    (Looping /\ Token \in Digits /\ pc' = "loop") =>
        /\ atoms' = atoms
        /\ IF Token \in DOMAIN rings
           THEN bonds' = Append(bonds, <<rings[Token], last_node_index>>)
           ELSE bonds' = bonds

RingClosureExamples ==
    /\ (pc = "done" /\ characters = Cyclopentane) =>
          /\ Len(mol.atoms) = 5
          /\ mol.bonds = << <<0,1>>, <<1,2>>, <<2,3>>, <<3,4>>, <<0,4>> >>
    /\ (pc = "done" /\ characters = Bicyclohexyl) =>
          /\ Len(mol.atoms) = 12
          /\ Len(mol.bonds) = 13
          /\ mol.bonds[6] = <<0,5>>
          /\ mol.bonds[13] = <<6,11>>

\* C2: a digit that is pending with opener i, processed with current atom
\* j, appends exactly the bond (i, j) after all earlier bonds and creates
\* no atom; a digit that opens a ring creates no bond and no atom
RingClosure == [][RingClosureStep]_vars /\ []RingClosureExamples

RingClosureWitness ==
    /\ pc = "done"
    /\ characters = Bicyclohexyl
    /\ Len(mol.bonds) = 13

\* an input made of element tokens c, n, o, f, cl only
IsChain(chars) ==
    \A k \in 1..Len(chars) :
        /\ chars[k] \in ElementChars \cup {"l"}
        /\ chars[k] = "l" => (k > 1 /\ chars[k - 1] = "c")

\* the atomic numbers of the element tokens of a chain, in input order
RECURSIVE ChainNumbers(_, _)
ChainNumbers(chars, k) ==
    IF k > Len(chars) THEN <<>>
    ELSE IF chars[k] = "l" THEN ChainNumbers(chars, k + 1)
    ELSE << IF AfterElement(chars, k) = k + 1 THEN 17
            ELSE CASE chars[k] = "c" -> 6 [] chars[k] = "n" -> 7
                   [] chars[k] = "o" -> 8 [] chars[k] = "f" -> 9 >>
         \o ChainNumbers(chars, k + 1)

\* C3: an input of n element tokens is parsed without abort into n atoms
\* with the tokens' atomic numbers in input order and the n-1 bonds
\* (k, k+1) in order
LinearChain ==
    IsChain(characters) =>
        /\ pc # "panic"
        /\ pc = "done" =>
              LET numbers == ChainNumbers(characters, 1)
              IN  /\ mol.returned
                  /\ mol.atoms = numbers
                  /\ Len(mol.bonds) = IF numbers = <<>> THEN 0 ELSE Len(numbers) - 1
                  /\ \A k \in 1..Len(mol.bonds) : mol.bonds[k] = <<k - 1, k>>

LinearChainWitness ==
    /\ pc = "done"
    /\ IsChain(characters)
    /\ Len(mol.atoms) >= 4
    /\ \E a, b, c \in 1..Len(mol.atoms) :
          mol.atoms[a] = 17 /\ mol.atoms[b] = 8 /\ mol.atoms[c] = 6

DigraphStep ==
    (Looping /\ Token = "c") =>
        /\ pc' = "loop"
        /\ IF cursor + 1 < Len(characters) /\ characters[cursor + 2] = "l"
           THEN cursor' = cursor + 2 /\ atoms' = Append(atoms, 17)
           ELSE cursor' = cursor + 1 /\ atoms' = Append(atoms, 6)

DigraphExamples ==
    /\ (pc = "done" /\ characters = InnerCl) => mol.atoms = <<6, 6, 17, 6>>
    /\ (pc = "done" /\ characters = LastCl) => mol.atoms = <<6, 6, 6, 17>>

\* C4: a 'c' directly followed by 'l' consumes both characters and adds one
\* atom 17; any other 'c' consumes one character and adds one atom 6, the
\* loop going on with the character that follows
Digraph == [][DigraphStep]_vars /\ []DigraphExamples

DigraphWitness ==
    /\ pc = "done"
    /\ characters = InnerCl
    /\ mol.atoms = <<6, 6, 17, 6>>

----------------------------------------------------------------------------
(* Failures and malformed inputs *)

\* C5: a digit 1-9 processed while no current atom is defined aborts the
\* parse, whether the digit is pending (would close) or not (would open),
\* and an aborted parse returns no graph
DigitNeedsAtomStep ==
    (Looping /\ Token \in Digits /\ last_node_index = None) =>
        /\ pc' = "panic"
        /\ mol' = NoMol

DigitNeedsAtom == [][DigitNeedsAtomStep]_vars /\ [](pc = "panic" => mol = NoMol)

\* a pending digit met after a ')' left the current atom undefined
DigitNeedsAtomWitness ==
    /\ pc = "panic"
    /\ cursor > 0
    /\ characters[cursor] \in Digits
    /\ characters[cursor] \in DOMAIN rings
    /\ last_node_index = None
    /\ atoms # <<>>

\* C6 as stated: a ')' processed with an empty branch stack, or with no
\* current atom, aborts the parse
BranchCloseAborts ==
    [][(Looping /\ Token = ")"
          /\ (branches_stack = <<>> \/ last_node_index = None)) =>
       pc' = "panic"]_vars

BranchCloseGoesOnStep ==
    (Looping /\ Token = ")") =>
        /\ pc' = "loop"
        /\ cursor' = cursor + 1
        /\ mol' = NoMol

\* a parse that aborted did so on a digit or a '(' met without current atom
AbortCause ==
    pc = "panic" =>
        /\ cursor > 0
        /\ characters[cursor] \in Digits \cup {"("}
        /\ last_node_index = None

\* C6 amended: a ')' never aborts the parse, also with an empty branch
\* stack or before any atom; the parse goes on with the next character and
\* aborts only on a digit or a '(' processed with no current atom
BranchCloseGoesOn == [][BranchCloseGoesOnStep]_vars /\ []AbortCause

\* an input that starts with ')' was parsed to the end
BranchCloseGoesOnWitness ==
    /\ pc = "done"
    /\ Len(characters) >= 2
    /\ characters[1] = ")"
    /\ mol.returned
    /\ mol.atoms # <<>>

UnmatchedCloseStep ==
    /\ (Looping /\ Token = ")" /\ branches_stack = <<>>) =>
          /\ last_node_index' = None
          /\ UNCHANGED <<atoms, bonds, rings, branches_stack>>
    /\ (Looping /\ Token \in ElementChars /\ last_node_index = None) =>
          /\ bonds' = bonds
          /\ Len(atoms') = Len(atoms) + 1
          /\ last_node_index' = Len(atoms)

UnmatchedCloseExample ==
    (pc = "done" /\ characters = <<"c", ")", "c">>) =>
        /\ Len(mol.atoms) = 2
        /\ mol.bonds = <<>>

\* C7: a ')' processed with an empty branch stack makes the current atom
\* undefined and changes neither graph, ring table nor stack; the next
\* element token adds an atom and no bond and becomes the current atom
UnmatchedClose == [][UnmatchedCloseStep]_vars /\ []UnmatchedCloseExample

UnmatchedCloseWitness ==
    /\ pc = "done"
    /\ characters = <<"c", ")", "c">>
    /\ mol.bonds = <<>>
    /\ last_node_index = 1

BranchOpenStep ==
    (Looping /\ Token = "(") =>
        IF last_node_index # None
        THEN /\ branches_stack' = Append(branches_stack, last_node_index)
             /\ UNCHANGED <<atoms, bonds, last_node_index, rings>>
             /\ pc' = "loop"
        ELSE /\ pc' = "panic"
             /\ mol' = NoMol

\* C8: '(' with a current atom a pushes a on the branch stack and changes
\* nothing else; '(' with no current atom aborts the parse
BranchOpen == [][BranchOpenStep]_vars

\* a '(' pushed, and a later '(' met after an unmatched ')' aborted
BranchOpenWitness ==
    /\ pc = "panic"
    /\ cursor > 0
    /\ characters[cursor] = "("
    /\ atoms # <<>>
    /\ \E k \in 1..(cursor - 1) :
          /\ characters[k] = "("
          /\ k \in DOMAIN trace
          /\ trace[k].branches_stack # <<>>

----------------------------------------------------------------------------
(* Ignored characters and the end of the input *)

TokenChars == ElementChars \cup Digits \cup {"(", ")"}

\* the positions of chars that hold an ignored character: one outside the
\* token set that is not the 'l' of a "cl"
IgnoredPositions(chars) ==
    {k \in 1..Len(chars) :
        /\ chars[k] \notin TokenChars
        /\ ~(chars[k] = "l" /\ k > 1 /\ chars[k - 1] = "c")}

\* the positions of chars in K, in increasing order
RECURSIVE Ordered(_)
Ordered(K) ==
    IF K = {} THEN <<>>
    ELSE LET m == CHOOSE x \in K : \A y \in K : x <= y
         IN  <<m>> \o Ordered(K \ {m})

\* chars with the characters at the positions D deleted
Delete(chars, D) ==
    LET keep == Ordered((1..Len(chars)) \ D)
    IN  [m \in 1..Len(keep) |-> chars[keep[m]]]

\* deleting the positions D puts no 'c' next to an 'l' it was not next to
NoNewDigraph(chars, D) ==
    LET keep == Ordered((1..Len(chars)) \ D)
    IN  \A m \in 1..(Len(keep) - 1) :
            (chars[keep[m]] = "c" /\ chars[keep[m + 1]] = "l") =>
                keep[m + 1] = keep[m] + 1

\* what a finished parse leaves: everything but the cursor position
Outcome(s) == [s EXCEPT !.cursor = 0]

SilentSkipStep ==
    (Looping /\ Token \notin TokenChars) =>
        /\ cursor' = cursor + 1
        /\ pc' = "loop"
        /\ UNCHANGED <<atoms, bonds, last_node_index, rings, branches_stack, mol>>

SilentSkipResult ==
    pc \in {"done", "panic"} =>
        \A D \in SUBSET IgnoredPositions(characters) :
            NoNewDigraph(characters, D) =>
                Outcome(Parse(Delete(characters, D))) = Outcome(Cur)

\* C9: a character outside the token set advances the cursor by one and
\* changes nothing else, without failure; so an input and the input with
\* such characters deleted give the same result, when the deletion puts
\* no 'c' next to an 'l'
SilentSkip == [][SilentSkipStep]_vars /\ []SilentSkipResult

SilentSkipWitness ==
    /\ pc = "done"
    /\ characters = <<"c","0","C","=","#",".","%"," ","l","c">>
    /\ mol.atoms = <<6, 6>>
    /\ mol.bonds = << <<0, 1>> >>

\* the number of positions of chars that hold d
Occurrences(chars, d) == Cardinality({k \in 1..Len(chars) : chars[k] = d})
LastPosition(chars, d) ==
    CHOOSE k \in 1..Len(chars) :
        chars[k] = d /\ \A j \in (k + 1)..Len(chars) : chars[j] # d

ReturnStep ==
    (pc = "loop" /\ cursor = Len(characters)) =>
        /\ pc' = "done"
        /\ mol' = [returned |-> TRUE, atoms |-> atoms, bonds |-> bonds]

ReturnedAsIs ==
    pc = "done" =>
        /\ cursor = Len(characters)
        /\ mol = [returned |-> TRUE, atoms |-> atoms, bonds |-> bonds]
        /\ \A d \in Digits :
              Occurrences(characters, d) % 2 = 1 =>
                  LET k == LastPosition(characters, d)
                  IN  trace[k].bonds = trace[k - 1].bonds
        /\ characters = <<"c", "1", "c", "c">> =>
              Len(mol.atoms) = 3 /\ Len(mol.bonds) = 2
        /\ characters = <<"c", "(", "c", "c">> =>
              Len(mol.atoms) = 3 /\ mol.bonds = << <<0, 1>>, <<1, 2>> >>

\* C10: at the end of the input parse returns the graph built so far, also
\* with ring labels pending or branches open; the last occurrence of a
\* label seen an odd number of times adds no bond
NoEndValidation == [][ReturnStep]_vars /\ []ReturnedAsIs

NoEndValidationWitness ==
    /\ pc = "done"
    /\ DOMAIN rings # {}
    /\ branches_stack # <<>>
    /\ Len(mol.atoms) >= 2
    /\ mol.bonds # <<>>

----------------------------------------------------------------------------
(* Invariants of the graph and of the parser state *)

IsPrefix(a, b) == Len(a) <= Len(b) /\ SubSeq(b, 1, Len(a)) = a

\* the number of characters the loop has processed without abort
Processed == IF pc = "panic" THEN cursor - 1 ELSE cursor

AppendOnlyStep ==
    /\ IsPrefix(atoms, atoms')
    /\ IsPrefix(bonds, bonds')
    /\ \A k \in (Len(bonds) + 1)..Len(bonds') :
          /\ bonds'[k][1] \in 0..(Len(atoms') - 1)
          /\ bonds'[k][2] \in 0..(Len(atoms') - 1)

ValidEndpoints ==
    \A k \in 1..Len(bonds) :
        /\ bonds[k][1] \in 0..(Len(atoms) - 1)
        /\ bonds[k][2] \in 0..(Len(atoms) - 1)

\* C11: every step keeps the atoms and bonds created so far, in order, and
\* only appends; the endpoints of a bond are ids of atoms that exist when
\* the bond is created
AppendOnly == [][AppendOnlyStep]_vars /\ []ValidEndpoints

AppendOnlyWitness ==
    /\ pc = "done"
    /\ characters = <<"c","(","c","(","n",")","1","o",")","f","1">>
    /\ Len(atoms) = 5
    /\ Len(bonds) = 5

\* the number of occurrences of d among the first n characters, and the
\* position of the last of them
OccurrencesUpTo(chars, d, n) == Cardinality({k \in 1..n : chars[k] = d})
LastPositionUpTo(chars, d, n) ==
    CHOOSE k \in 1..n : chars[k] = d /\ \A j \in (k + 1)..n : chars[j] # d

RingParityState ==
    \A d \in Digits :
        LET n == OccurrencesUpTo(characters, d, Processed)
        IN  /\ d \in DOMAIN rings <=> n % 2 = 1
            /\ n % 2 = 1 =>
                  rings[d] =
                     trace[LastPositionUpTo(characters, d, Processed) - 1].last_node_index

RingParityStep ==
    (Looping /\ Token \in Digits) =>
        \A d \in Digits \ {Token} :
            /\ d \in DOMAIN rings' <=> d \in DOMAIN rings
            /\ d \in DOMAIN rings => rings'[d] = rings[d]

RingParityExample ==
    (pc = "done" /\ characters = <<"c","1","c","2","c","c","1","c","2">>) =>
        mol.bonds = << <<0,1>>, <<1,2>>, <<2,3>>, <<0,3>>, <<3,4>>, <<1,4>> >>

\* C12: a digit is a key of the ring table exactly when it occurred an odd
\* number of times in the processed prefix, with the atom that was current
\* at its last occurrence as value; a digit step leaves the entries of the
\* other digits alone
RingParity ==
    [][RingParityStep]_vars /\ []RingParityState /\ []RingParityExample

\* a third occurrence of a digit opened a ring again
RingParityWitness ==
    /\ pc = "loop"
    /\ OccurrencesUpTo(characters, "1", cursor) = 3
    /\ "1" \in DOMAIN rings
    /\ bonds # <<>>

\* the open-branch nesting depth after the first n characters
RECURSIVE Depth(_, _)
Depth(chars, n) ==
    IF n = 0 THEN 0
    ELSE LET d == Depth(chars, n - 1)
         IN  IF chars[n] = "(" THEN d + 1
             ELSE IF chars[n] = ")" THEN (IF d > 0 THEN d - 1 ELSE 0)
             ELSE d

StackDepthStep ==
    /\ (Looping /\ Token = "(" /\ pc' = "loop") =>
          Len(branches_stack') = Len(branches_stack) + 1
    /\ (Looping /\ Token = ")") =>
          Len(branches_stack') =
             IF branches_stack = <<>> THEN 0 ELSE Len(branches_stack) - 1
    /\ (Looping /\ Token \notin {"(", ")"}) => branches_stack' = branches_stack

\* C13: the depth of the branch stack is the number of '(' processed minus
\* the number of ')' processed that had an open '(' to match; only '(' adds
\* one, only ')' takes one (never below zero)
StackDepth ==
    [][StackDepthStep]_vars
      /\ [](Len(branches_stack) = Depth(characters, Processed))

StackDepthWitness ==
    /\ pc = "loop"
    /\ Len(branches_stack) = 2
    /\ \E k \in 1..cursor : characters[k] = ")"

CurrentAtomStep ==
    /\ (Looping /\ Token \in ElementChars) => last_node_index' = Len(atoms)
    /\ (Looping /\ Token = ")") =>
          last_node_index' =
             IF branches_stack = <<>> THEN None
             ELSE branches_stack[Len(branches_stack)]
    /\ (Looping /\ Token \notin ElementChars \cup {")"}) =>
          last_node_index' = last_node_index
    /\ ~Looping => last_node_index' = last_node_index

CurrentAtomExample ==
    (pc = "done" /\ characters = Bicyclohexyl) => mol.bonds[7] = <<5, 6>>

\* C14: the current atom changes only on an element token (to the new
\* atom) and on ')' (to the popped value or undefined); ring digits and
\* '(' leave it unchanged
CurrentAtom == [][CurrentAtomStep]_vars /\ []CurrentAtomExample

\* the atom after the digit that closed the first ring of bicyclohexyl
CurrentAtomWitness ==
    /\ characters = Bicyclohexyl
    /\ cursor = 9
    /\ last_node_index = 6
    /\ bonds[Len(bonds)] = <<5, 6>>

----------------------------------------------------------------------------
(* Termination and the two outcomes of parse *)

\* longest input of the runs checked for termination
MaxFair == 4

FairAlphabet == {"c", "l", "n", "1", "(", ")", "x"}

InitFair ==
    /\ characters \in Strs(FairAlphabet, MaxFair)
    /\ cursor = InitState.cursor
    /\ atoms = InitState.atoms
    /\ bonds = InitState.bonds
    /\ last_node_index = InitState.last_node_index
    /\ rings = InitState.rings
    /\ branches_stack = InitState.branches_stack
    /\ pc = InitState.pc
    /\ mol = InitState.mol
    /\ trace = (0 :> InitState)
    /\ ret = NoRet

\* parse is one synchronous call: its loop runs on as long as it can
FairSpec == InitFair /\ [][Next]_vars /\ WF_vars(Next)

\* the loop iterations run so far
Iterations ==
    Cardinality(DOMAIN trace) - 1 + (IF pc = "panic" THEN 1 ELSE 0)

CursorStep ==
    /\ Looping =>
          /\ cursor' = cursor +
                (IF Token = "c" /\ cursor + 1 < Len(characters)
                       /\ characters[cursor + 2] = "l" THEN 2 ELSE 1)
          /\ pc' # "done"
    /\ (pc = "loop" /\ cursor = Len(characters)) => pc' = "done"

CursorBound ==
    /\ cursor \in 0..Len(characters)
    /\ Iterations <= cursor
    /\ pc = "done" => cursor = Len(characters)

\* C15: parse finishes on every input (it returns or aborts); every
\* iteration moves the cursor on by one, or by two for "cl", never past
\* the end of the input, and the loop is left exactly when the cursor is
\* at the end, after at most len(input) iterations
Termination ==
    /\ <>(pc \in {"done", "panic"})
    /\ [][CursorStep]_vars
    /\ []CursorBound

\* a parse that returned after fewer iterations than characters
TerminationWitness ==
    /\ pc = "done"
    /\ Len(characters) >= 4
    /\ Iterations < Len(characters)
    /\ Iterations >= 2

\* the characters of the input that a finished parse consumed
Consumed ==
    {k \in 1..Len(characters) :
        \/ (k - 1) \in DOMAIN trace
        \/ (k > 1 /\ characters[k] = "l" /\ characters[k - 1] = "c"
              /\ (k - 2) \in DOMAIN trace)}

\* C16: a call of parse ends in exactly one of two ways: it returns the
\* graph built from all of the input, or it aborts and delivers nothing,
\* not even the atoms and bonds built before the abort
Outcomes ==
    /\ pc \in {"loop", "done", "panic"}
    /\ pc = "loop" => mol = NoMol
    /\ pc = "panic" => mol = NoMol
    /\ pc = "done" =>
          /\ mol = [returned |-> TRUE, atoms |-> atoms, bonds |-> bonds]
          /\ cursor = Len(characters)
          /\ Consumed = 1..Len(characters)

AllOrNothing == []Outcomes /\ [][pc = "loop" /\ mol = NoMol]_vars

\* a parse aborted after it had built atoms and bonds
AllOrNothingWitness ==
    /\ pc = "panic"
    /\ Len(atoms) >= 2
    /\ bonds # <<>>
    /\ mol = NoMol

----------------------------------------------------------------------------
(* The `string` utility of main.rs: one behaviour of SpecString is one    *)
(* call of string, one step one iteration of its loop or its return.      *)

\* longest input of string
MaxStr == 5

StringAlphabet == {"*", "c", "1"}

\* unit: take one '*'
unit(chars, cur) == Scanner_take(chars, cur, "*")

StringResultNoCursor(chars, cur) == Scanner_is_done(chars, cur)

\* line 125: the value string returns
StringResult(chars, cur) == cur > 0 /\ Scanner_is_done(chars, cur)

InitString ==
    /\ characters \in Strs(StringAlphabet, MaxStr)
    /\ cursor = 0
    /\ pc = "loop"
    /\ ret = NoRet
    /\ atoms = InitState.atoms
    /\ bonds = InitState.bonds
    /\ last_node_index = InitState.last_node_index
    /\ rings = InitState.rings
    /\ branches_stack = InitState.branches_stack
    /\ mol = InitState.mol
    /\ trace = (0 :> InitState)

ParseLocals ==
    <<characters, atoms, bonds, last_node_index, rings, branches_stack,
      mol, trace>>

\* unit took a '*': the loop goes on
StringUnit ==
    /\ pc = "loop"
    /\ unit(characters, cursor).value
    /\ cursor' = unit(characters, cursor).cursor
    /\ UNCHANGED <<pc, ret, ParseLocals>>

\* unit took nothing: the loop breaks and string returns
StringReturn ==
    /\ pc = "loop"
    /\ ~unit(characters, cursor).value
    /\ cursor' = unit(characters, cursor).cursor
    /\ pc' = "done"
    /\ ret' = [op |-> "string",
               value |-> StringResult(characters, unit(characters, cursor).cursor)]
    /\ UNCHANGED ParseLocals

NextString ==
    \/ StringUnit
    \/ StringReturn

SpecString == InitString /\ [][NextString]_vars

\* C17: string returns true exactly for a non-empty input of '*' only; on
\* any other input it returns false, the scan having stopped at the first
\* character that is not '*'
StringAccepts ==
    ret.op = "string" =>
        /\ pc = "done"
        /\ ret.value = (characters # <<>>
                          /\ \A k \in 1..Len(characters) : characters[k] = "*")
        /\ characters = <<>> => ret.value = FALSE
        /\ (\E k \in 1..Len(characters) : characters[k] # "*") =>
              /\ ret.value = FALSE
              /\ cursor < Len(characters)
              /\ characters[cursor + 1] # "*"
              /\ \A k \in 1..cursor : characters[k] = "*"

StringAcceptsWitness ==
    /\ ret = [op |-> "string", value |-> TRUE]
    /\ Len(characters) >= 3
    /\ cursor = Len(characters)

----------------------------------------------------------------------------
(* The Scanner on its own: a behaviour of SpecScanner is any sequence of  *)
(* peek, pop, take and is_done calls on one Scanner.                      *)

\* longest input of the Scanner runs
MaxScan == 3

ScanAlphabet == {"*", "c", "l"}

InitScanner ==
    /\ characters \in Strs(ScanAlphabet, MaxScan)
    /\ cursor = 0
    /\ ret = NoRet
    /\ pc = "loop"
    /\ atoms = InitState.atoms
    /\ bonds = InitState.bonds
    /\ last_node_index = InitState.last_node_index
    /\ rings = InitState.rings
    /\ branches_stack = InitState.branches_stack
    /\ mol = InitState.mol
    /\ trace = (0 :> InitState)

ScanPeek ==
    /\ ret' = [op |-> "peek", value |-> Scanner_peek(characters, cursor)]
    /\ UNCHANGED <<cursor, pc, ParseLocals>>

ScanIsDone ==
    /\ ret' = [op |-> "is_done", value |-> Scanner_is_done(characters, cursor)]
    /\ UNCHANGED <<cursor, pc, ParseLocals>>

ScanPop ==
    /\ ret' = [op |-> "pop", value |-> Scanner_pop(characters, cursor).value]
    /\ cursor' = Scanner_pop(characters, cursor).cursor
    /\ UNCHANGED <<pc, ParseLocals>>

ScanTake ==
    \E target \in ScanAlphabet :
        /\ ret' = [op |-> "take", target |-> target,
                   value |-> Scanner_take(characters, cursor, target).value]
        /\ cursor' = Scanner_take(characters, cursor, target).cursor
        /\ UNCHANGED <<pc, ParseLocals>>

NextScanner ==
    \/ ScanPeek
    \/ ScanIsDone
    \/ ScanPop
    \/ ScanTake

SpecScanner == InitScanner /\ [][NextScanner]_vars

Exhausted == cursor = Len(characters)

ScannerStep ==
    /\ cursor' >= cursor
    /\ ret'.op = "peek" =>
          /\ cursor' = cursor
          /\ ret'.value = IF Exhausted THEN "None" ELSE characters[cursor + 1]
    /\ ret'.op = "is_done" =>
          /\ cursor' = cursor
          /\ ret'.value = Exhausted
    /\ ret'.op = "pop" =>
          IF Exhausted
          THEN cursor' = cursor /\ ret'.value = "None"
          ELSE cursor' = cursor + 1 /\ ret'.value = characters[cursor + 1]
    /\ ret'.op = "take" =>
          IF ~Exhausted /\ characters[cursor + 1] = ret'.target
          THEN cursor' = cursor + 1 /\ ret'.value = TRUE
          ELSE cursor' = cursor /\ ret'.value = FALSE

\* C18: under any sequence of peek, pop, take and is_done calls the cursor
\* stays in 0..length and never decreases; peek and is_done leave it; pop
\* moves it by one and returns the character it was at, or returns nothing
\* and leaves it when exhausted; take moves it by one and returns true only
\* on its target; is_done holds exactly at cursor = length
CursorDiscipline ==
    [][ScannerStep]_vars /\ [](cursor \in 0..Len(characters))

\* a take that met another character after the cursor had moved
CursorDisciplineWitness ==
    /\ ret.op = "take"
    /\ ret.value = FALSE
    /\ cursor \in 1..(Len(characters) - 1)
    /\ characters[cursor + 1] # ret.target

----------------------------------------------------------------------------
(* Laws that follow from the parser's bookkeeping *)

\* no ')' of chars meets an empty branch stack
NoUnderflow(chars) ==
    \A k \in 1..Len(chars) : chars[k] = ")" => Depth(chars, k - 1) > 0

\* the number of digit occurrences of chars that close a pending ring
RECURSIVE ClosingsOf(_, _)
ClosingsOf(chars, D) ==
    IF D = {} THEN 0
    ELSE LET d == CHOOSE x \in D : TRUE
         IN  (Occurrences(chars, d) \div 2) + ClosingsOf(chars, D \ {d})
Closings(chars) == ClosingsOf(chars, Digits)

\* the atoms joined to the atoms of S by the bonds of bs
RECURSIVE Component(_, _)
Component(S, bs) ==
    LET T == S \cup {bs[k][1] : k \in {j \in 1..Len(bs) : bs[j][2] \in S}}
               \cup {bs[k][2] : k \in {j \in 1..Len(bs) : bs[j][1] \in S}}
    IN  IF T = S THEN S ELSE Component(T, bs)

\* the loop head before the loop head at cursor p > 0
HeadBefore(p) == CHOOSE q \in DOMAIN trace : q < p /\ \A x \in DOMAIN trace : x < p => x <= q

\* C19: a parse that returns and met no ')' on an empty branch stack gives
\* bondCount = atomCount - 1 + (ring-closing digit occurrences), or 0 bonds
\* for 0 atoms; every atom but atom 0 came with exactly one bond
\* (current atom, new atom) from a smaller id, so the graph is connected
BondCountLaw ==
    (pc = "done" /\ NoUnderflow(characters)) =>
        /\ Len(mol.atoms) = 0 => Len(mol.bonds) = 0
        /\ Len(mol.atoms) >= 1 =>
              /\ Len(mol.bonds) = Len(mol.atoms) - 1 + Closings(characters)
              /\ Component({0}, mol.bonds) = 0..(Len(mol.atoms) - 1)
        /\ \A p \in DOMAIN trace \ {0} :
              LET before == trace[HeadBefore(p)]
                  new == Len(before.atoms)
              IN  (Len(trace[p].atoms) > new /\ new >= 1) =>
                      /\ Len(trace[p].atoms) = new + 1
                      /\ Len(trace[p].bonds) = Len(before.bonds) + 1
                      /\ trace[p].bonds[Len(trace[p].bonds)][2] = new
                      /\ trace[p].bonds[Len(trace[p].bonds)][1] = before.last_node_index
                      /\ before.last_node_index \in 0..(new - 1)

\* a returned graph with a branch and a closed ring
BondCountLawWitness ==
    /\ pc = "done"
    /\ NoUnderflow(characters)
    /\ Closings(characters) >= 1
    /\ \E k \in 1..Len(characters) : characters[k] = ")"
    /\ Len(mol.atoms) >= 3
    /\ Len(mol.bonds) >= 3

\* the current atom was lost to a ')' that met an empty branch stack, and
\* no element token was processed since
UndefinedByClose ==
    \E k \in 1..Processed :
        /\ characters[k] = ")"
        /\ trace[k - 1].branches_stack = <<>>
        /\ \A j \in (k + 1)..Processed : characters[j] \notin ElementChars

\* C20: the current atom when defined, every opener in the ring table and
\* every entry of the branch stack is the id of an atom of the graph; the
\* current atom is undefined only before the first element token or after
\* a ')' that met an empty branch stack
ReferencesValid ==
    /\ last_node_index \in {None} \cup (0..(Len(atoms) - 1))
    /\ \A d \in DOMAIN rings : rings[d] \in 0..(Len(atoms) - 1)
    /\ \A k \in 1..Len(branches_stack) :
          branches_stack[k] \in 0..(Len(atoms) - 1)
    /\ last_node_index = None =>
          \/ \A j \in 1..Processed : characters[j] \notin ElementChars
          \/ UndefinedByClose

\* a ring is pending and a branch open while the current atom is defined
ReferencesValidWitness ==
    /\ pc = "loop"
    /\ DOMAIN rings # {}
    /\ branches_stack # <<>>
    /\ last_node_index # None
    /\ Len(atoms) >= 2
    /\ \E d \in DOMAIN rings : rings[d] # last_node_index

====
